---------------------------- MODULE Spec2Model ----------------------------
(***************************************************************************)
(* The diagram cache of src/diagrams/cache.py: CacheEntry and DiagramCache *)
(* as a state machine over a small file system.                            *)
(*                                                                         *)
(* Paths are sequences of components (<<"/", "w", "a">> is /w/a, <<"a">>   *)
(* is the relative path a).  Strings are sequences of code points, byte    *)
(* strings are sequences of bytes.  Datetimes are integers counting ticks  *)
(* (the microseconds of the code), TicksPerSec ticks to the second.        *)
(***************************************************************************)
EXTENDS Integers, Sequences, FiniteSets, TLC

VARIABLES
    fs,       \* source files: canonical path -> [exists, bytes, mtime, readable]
    outs,     \* the absolute output paths that exist on disk
    cwd,      \* the working directory of the process
    disk,     \* the index file cache_dir/diagram_cache.json
    caches,   \* DiagramCache instances: [alive, cache_data]
    last,     \* the last call made, with its arguments and its result
    snap,     \* history: per instance and key, the file bytes that the last
              \* cache_diagram without content hashed (NoSnap if none)
    saved,    \* history: the index written by the last save that completed
    given,    \* history: per instance (0: a generator without cache) and key,
              \* the content given to the cache_diagram that made the entry
    generator, \* the DiagramGenerator: [enable_cache, cache]
    dirs      \* the directories that exist, of cache_dir and its parent

vars == <<fs, outs, cwd, disk, caches, last, snap, saved, given, generator, dirs>>

---------------------------------------------------------------------------
(* Bounds *)

MaxTime == 2
TicksPerSec == 2

Times == 0..MaxTime
Insts == {1, 2}

---------------------------------------------------------------------------
(* Paths *)

\* None, for a content argument and for a path
None == <<-1>>
NoPath == <<"None">>

DirW == <<"/", "w">>
DirX == <<"/", "x">>
Dirs == {DirW, DirX}
RelA == <<"a">>
AbsWA == DirW \o RelA
AbsXA == DirX \o RelA
CanonPaths == {AbsWA, AbsXA}
SourcePaths == {RelA, AbsWA, AbsXA}

RelOut == <<"a.json">>
AbsOut == <<"/", "o", "a.png">>
AbsOutputs == {AbsOut}

\* Path.is_absolute()
IsAbsolute(p) == Len(p) > 0 /\ p[1] = "/"

\* Path(p).resolve(), in working directory wd
Resolve(p, wd) == IF IsAbsolute(p) THEN p ELSE wd \o p

\* Path(p).exists(), in working directory wd
PathExists(p, wd) ==
    LET q == Resolve(p, wd)
    IN  IF q \in DOMAIN fs THEN fs[q].exists ELSE q \in outs

\* source_path.stat().st_mtime
StatMtime(p, wd) == fs[Resolve(p, wd)].mtime

NoFile == [exists |-> FALSE, bytes |-> <<>>, mtime |-> 0, readable |-> TRUE]
File(b, t, r) == [exists |-> TRUE, bytes |-> b, mtime |-> t, readable |-> r]

---------------------------------------------------------------------------
(* Contents, encoding and hashing *)

\* str values (code points) and file contents (bytes)
StrA == <<65>>
StrE == <<233>>
Strs == {StrA, StrE}

RECURSIVE Utf8Encode(_)
\* str.encode('utf-8'), for code points below 2048
Utf8Encode(s) ==
    IF s = <<>> THEN <<>>
    ELSE LET c == Head(s)
         IN  (IF c < 128 THEN <<c>>
              ELSE <<192 + (c \div 64), 128 + (c % 64)>>) \o Utf8Encode(Tail(s))

BytesA == <<65>>
BytesE == <<195, 169>>
ByteStrings == {BytesA, BytesE}

\* hashlib.sha256(b).hexdigest(): an injective image of the bytes
Sha256Hex(b) == <<"sha256", b>>
EmptyDigest == <<>>
HexLen(d) == IF d = EmptyDigest THEN 0 ELSE 64

\* DiagramCache._calculate_file_hash
CalculateFileHash(p, wd) ==
    IF ~PathExists(p, wd) THEN EmptyDigest
    ELSE IF fs[Resolve(p, wd)].readable
         THEN Sha256Hex(fs[Resolve(p, wd)].bytes)
         ELSE EmptyDigest

\* DiagramCache._calculate_content_hash
CalculateContentHash(content) == Sha256Hex(Utf8Encode(content))

---------------------------------------------------------------------------
(* Datetimes and their ISO form *)

\* datetime.fromtimestamp
FromTimestamp(ts) == ts

\* isoformat(timespec='seconds'): the fraction is always dropped
IsoFormat_Seconds(dt) == <<dt \div TicksPerSec>>

\* datetime.isoformat(): the fraction is omitted when it is zero
IsoFormat(dt) ==
    IF dt % TicksPerSec = 0 THEN <<dt \div TicksPerSec>>
    ELSE <<dt \div TicksPerSec, dt % TicksPerSec>>

IsoValid(s) ==
    /\ Len(s) \in {1, 2}
    /\ Len(s) = 2 => s[2] \in 0..(TicksPerSec - 1)

\* datetime.fromisoformat, for a valid string
FromIsoFormat(s) ==
    IF Len(s) = 1 THEN s[1] * TicksPerSec ELSE s[1] * TicksPerSec + s[2]

BadIso == <<0, 0, 0>>

---------------------------------------------------------------------------
(* Maps (Python dicts) *)

\* {} ; a dict argument that is None
EmptyMap == [k \in {} |-> 0]
NoneMap == [none |-> TRUE]
MapPut(d, k, v) == [j \in (DOMAIN d) \cup {k} |-> IF j = k THEN v ELSE d[j]]
MapDrop(d, ks) == [j \in (DOMAIN d) \ ks |-> d[j]]

---------------------------------------------------------------------------
(* CacheEntry and its serialized form *)

EntryFields == {"file_path", "content_hash", "last_modified",
                "output_files", "metadata"}

\* output_files arguments
OutNone == NoneMap
OutRel == [json |-> RelOut]
OutBoth == [json |-> RelOut, png |-> AbsOut]

\* metadata arguments: values carry their Python type
MetaNone == NoneMap
MetaStr == [type |-> <<"str", 1>>]
MetaTuple == [pos |-> <<"tuple", 1>>]
MetaObject == [obj |-> <<"object", 1>>]

\* `x or {}`
OrEmpty(x) == IF x = NoneMap THEN EmptyMap ELSE x

\* json: a tuple is written as an array, which is read back as a list
JsonValue(v) == IF v[1] = "tuple" THEN <<"list", v[2]>> ELSE v
JsonSerializable(v) == v[1] # "object"

\* CacheEntry.to_dict
ToDict(e) == [e EXCEPT !.last_modified = IsoFormat(@)]

\* what json.dump writes for an entry dict and json.load reads back
JsonEntry(d) ==
    [d EXCEPT !.metadata = [k \in DOMAIN d.metadata |-> JsonValue(d.metadata[k])]]

EntrySerializable(e) ==
    \A k \in DOMAIN e.metadata : JsonSerializable(e.metadata[k])

\* CacheEntry.from_dict: the exception it raises on d, or "ok"
FromDictError(d) ==
    IF "last_modified" \notin DOMAIN d THEN "KeyError"
    ELSE IF ~IsoValid(d.last_modified) THEN "ValueError"
    ELSE IF DOMAIN d # EntryFields THEN "TypeError"
    ELSE "ok"

\* CacheEntry.from_dict, where it succeeds
FromDict(d) == [d EXCEPT !.last_modified = FromIsoFormat(@)]

---------------------------------------------------------------------------
(* The index file *)

NoIndex == [kind |-> "absent", data |-> EmptyMap]
Garbage == [kind |-> "garbage", data |-> EmptyMap]
JsonIndex(d) == [kind |-> "json", data |-> d]

NoInstance == [alive |-> FALSE, cache_data |-> EmptyMap]
Instance(d) == [alive |-> TRUE, cache_data |-> d]

\* DiagramCache._load_cache: the exceptions from_dict may raise while the
\* entries of the index are read ("ok" if every entry is read)
LoadErrors(ix) ==
    IF ix.kind = "absent" THEN {"ok"}
    ELSE IF ix.kind = "garbage" THEN {"JSONDecodeError"}
    ELSE LET errs == {FromDictError(ix.data[k]) : k \in DOMAIN ix.data} \ {"ok"}
         IN  IF errs = {} THEN {"ok"} ELSE errs

CaughtOnLoad == {"JSONDecodeError", "KeyError", "ValueError"}

\* DiagramCache._load_cache, when the loop ends with err
LoadCache(ix, err) ==
    IF err = "ok"
    THEN [raised |-> FALSE, warn |-> FALSE,
          data |-> [k \in DOMAIN ix.data |-> FromDict(ix.data[k])]]
    ELSE IF err \in CaughtOnLoad
         THEN [raised |-> FALSE, warn |-> TRUE, data |-> EmptyMap]
         ELSE [raised |-> TRUE, warn |-> FALSE, data |-> EmptyMap]

SaveOutcomes == {"ok", "open_fail", "write_fail"}

\* _save_cache catching OSError only: the TypeError of json.dump escapes
SaveCache_OnlyOSError(d, io) ==
    IF io = "open_fail" THEN [disk |-> disk, warn |-> TRUE, raised |-> FALSE]
    ELSE IF \E k \in DOMAIN d : ~EntrySerializable(d[k])
         THEN [disk |-> Garbage, warn |-> FALSE, raised |-> TRUE]
         ELSE IF io = "write_fail"
              THEN [disk |-> Garbage, warn |-> TRUE, raised |-> FALSE]
              ELSE [disk |-> JsonIndex([k \in DOMAIN d |-> JsonEntry(ToDict(d[k]))]),
                    warn |-> FALSE, raised |-> FALSE]

\* _save_cache keeping the entries the index file holds for other keys
SaveCache_Merge(d, io) ==
    IF io = "open_fail" THEN [disk |-> disk, warn |-> TRUE, raised |-> FALSE]
    ELSE IF io = "write_fail" \/ \E k \in DOMAIN d : ~EntrySerializable(d[k])
         THEN [disk |-> Garbage, warn |-> TRUE, raised |-> FALSE]
         ELSE LET old == IF disk.kind = "json" THEN disk.data ELSE EmptyMap
              IN  [disk |-> JsonIndex([k \in DOMAIN d \cup DOMAIN old |->
                                         IF k \in DOMAIN d
                                         THEN JsonEntry(ToDict(d[k]))
                                         ELSE old[k]]),
                   warn |-> FALSE, raised |-> FALSE]

\* DiagramCache._save_cache of cache_data d: open() fails and leaves the file
\* as it was, or it truncates the file and json.dump writes the document,
\* stopping short on a value json cannot encode or on a write error
SaveCache(d, io) ==
    IF io = "open_fail" THEN [disk |-> disk, warn |-> TRUE, raised |-> FALSE]
    ELSE IF io = "write_fail" \/ \E k \in DOMAIN d : ~EntrySerializable(d[k])
         THEN [disk |-> Garbage, warn |-> TRUE, raised |-> FALSE]
         ELSE [disk |-> JsonIndex([k \in DOMAIN d |-> JsonEntry(ToDict(d[k]))]),
               warn |-> FALSE, raised |-> FALSE]

---------------------------------------------------------------------------
(* The queries of DiagramCache, on cache_data d in the current file system *)

\* is_cached taking a file as stale when it is as old as the entry
IsCached_StaleWhenEqual(d, p, content) ==
    LET cache_key == Resolve(p, cwd)
    IN  IF cache_key \notin DOMAIN d THEN FALSE
        ELSE LET entry == d[cache_key]
             IN  IF content # None
                 THEN CalculateContentHash(content) = entry.content_hash
                 ELSE IF PathExists(p, cwd)
                      THEN IF FromTimestamp(StatMtime(p, cwd)) >= entry.last_modified
                           THEN FALSE
                           ELSE CalculateFileHash(p, cwd) = entry.content_hash
                      ELSE TRUE

\* is_cached trusting the modification time alone
IsCached_MtimeOnly(d, p, content) ==
    LET cache_key == Resolve(p, cwd)
    IN  IF cache_key \notin DOMAIN d THEN FALSE
        ELSE LET entry == d[cache_key]
             IN  IF content # None
                 THEN CalculateContentHash(content) = entry.content_hash
                 ELSE IF PathExists(p, cwd)
                      THEN FromTimestamp(StatMtime(p, cwd)) <= entry.last_modified
                      ELSE TRUE

\* is_cached testing the content with `if content:`, so that an empty
\* string counts as no content
IsCached_ContentTruthy(d, p, content) ==
    LET cache_key == Resolve(p, cwd)
    IN  IF cache_key \notin DOMAIN d THEN FALSE
        ELSE LET entry == d[cache_key]
             IN  IF content # None /\ content # <<>>
                 THEN CalculateContentHash(content) = entry.content_hash
                 ELSE IF PathExists(p, cwd)
                      THEN IF FromTimestamp(StatMtime(p, cwd)) > entry.last_modified
                           THEN FALSE
                           ELSE CalculateFileHash(p, cwd) = entry.content_hash
                      ELSE TRUE

\* is_cached looking at the modification time of the file before the content
IsCached_ContentNeedsFile(d, p, content) ==
    LET cache_key == Resolve(p, cwd)
    IN  IF cache_key \notin DOMAIN d THEN FALSE
        ELSE LET entry == d[cache_key]
             IN  IF PathExists(p, cwd)
                    /\ FromTimestamp(StatMtime(p, cwd)) > entry.last_modified
                 THEN FALSE
                 ELSE IF content # None
                      THEN CalculateContentHash(content) = entry.content_hash
                      ELSE IF PathExists(p, cwd)
                           THEN CalculateFileHash(p, cwd) = entry.content_hash
                           ELSE TRUE

\* is_cached comparing the digests before the modification times
IsCached_HashFirst(d, p, content) ==
    LET cache_key == Resolve(p, cwd)
    IN  IF cache_key \notin DOMAIN d THEN FALSE
        ELSE LET entry == d[cache_key]
             IN  IF content # None
                 THEN CalculateContentHash(content) = entry.content_hash
                 ELSE IF PathExists(p, cwd)
                      THEN IF CalculateFileHash(p, cwd) = entry.content_hash
                           THEN TRUE
                           ELSE FromTimestamp(StatMtime(p, cwd)) <= entry.last_modified
                      ELSE TRUE

\* is_cached taking an entry whose source file is gone as stale
IsCached_MissingIsStale(d, p, content) ==
    LET cache_key == Resolve(p, cwd)
    IN  IF cache_key \notin DOMAIN d THEN FALSE
        ELSE LET entry == d[cache_key]
             IN  IF content # None
                 THEN CalculateContentHash(content) = entry.content_hash
                 ELSE IF PathExists(p, cwd)
                      THEN IF FromTimestamp(StatMtime(p, cwd)) > entry.last_modified
                           THEN FALSE
                           ELSE CalculateFileHash(p, cwd) = entry.content_hash
                      ELSE FALSE

\* DiagramCache.is_cached
IsCached(d, p, content) ==
    LET cache_key == Resolve(p, cwd)
    IN  IF cache_key \notin DOMAIN d THEN FALSE
        ELSE LET entry == d[cache_key]
             IN  IF content # None
                 THEN CalculateContentHash(content) = entry.content_hash
                 ELSE IF PathExists(p, cwd)
                      THEN IF FromTimestamp(StatMtime(p, cwd)) > entry.last_modified
                           THEN FALSE
                           ELSE CalculateFileHash(p, cwd) = entry.content_hash
                      ELSE TRUE

\* get_cached_outputs returning the outputs that are still there
GetCachedOutputs_Partial(d, p) ==
    LET cache_key == Resolve(p, cwd)
    IN  IF cache_key \in DOMAIN d
        THEN LET entry == d[cache_key]
                 there == {f \in DOMAIN entry.output_files :
                              IsAbsolute(entry.output_files[f])
                              => PathExists(entry.output_files[f], cwd)}
             IN  [f \in there |-> entry.output_files[f]]
        ELSE NoneMap

\* DiagramCache.get_cached_outputs
GetCachedOutputs(d, p) ==
    LET cache_key == Resolve(p, cwd)
    IN  IF cache_key \in DOMAIN d
        THEN LET entry == d[cache_key]
             IN  IF \E f \in DOMAIN entry.output_files :
                        /\ IsAbsolute(entry.output_files[f])
                        /\ ~PathExists(entry.output_files[f], cwd)
                 THEN NoneMap
                 ELSE entry.output_files
        ELSE NoneMap

RECURSIVE SumOutputs(_, _)
\* sum(len(entry.output_files) for entry in cache_data.values())
SumOutputs(d, ks) ==
    IF ks = {} THEN 0
    ELSE LET k == CHOOSE x \in ks : TRUE
         IN  Cardinality(DOMAIN d[k].output_files) + SumOutputs(d, ks \ {k})

\* cache_dir, a directory below a directory that may be missing
CacheParent == <<"/", "n">>
CacheDir == CacheParent \o <<"c">>
AllDirs == {CacheParent, CacheDir}

\* Path.parent
Parent(p) == SubSeq(p, 1, Len(p) - 1)

\* Path.mkdir(exist_ok=True): a directory that exists is left alone, a
\* missing parent is an error
Mkdir(p) ==
    IF Parent(p) \notin dirs
    THEN [raised |-> TRUE, err |-> "FileNotFoundError", dirs |-> dirs]
    ELSE [raised |-> FALSE, err |-> "ok", dirs |-> dirs \cup {p}]

CacheFile == CacheDir \o <<"diagram_cache.json">>

\* get_cache_stats counting the entries that have outputs
GetCacheStats_EntriesWithOutputs(d) ==
    [total_entries |-> Cardinality(DOMAIN d),
     total_outputs |-> Cardinality({k \in DOMAIN d : DOMAIN d[k].output_files # {}}),
     cache_file_size |-> IF disk.kind = "absent" THEN 0
                         ELSE 1 + Cardinality(DOMAIN disk.data),
     cache_file_path |-> CacheFile]

\* DiagramCache.get_cache_stats; the size of the index file is 0 when the
\* file is absent, else one unit per entry written plus one
GetCacheStats(d) ==
    [total_entries |-> Cardinality(DOMAIN d),
     total_outputs |-> SumOutputs(d, DOMAIN d),
     cache_file_size |-> IF disk.kind = "absent" THEN 0
                         ELSE 1 + Cardinality(DOMAIN disk.data),
     cache_file_path |-> CacheFile]

\* stale keys sparing the entries that were cached with a content
StaleKeys_HashedOnly(d) ==
    {k \in DOMAIN d : ~PathExists(d[k].file_path, cwd) /\ d[k].content_hash = EmptyDigest}

\* stale keys judged by the canonical key, not by the stored file_path
StaleKeys_ByKey(d) ==
    {k \in DOMAIN d : ~PathExists(k, cwd)}

\* the keys cleanup_stale_entries collects
StaleKeys(d) == {k \in DOMAIN d : ~PathExists(d[k].file_path, cwd)}

---------------------------------------------------------------------------
(* The calls *)

NoSnap == <<-1>>

\* no save has completed yet
NoSaved == [kind |-> "none", data |-> EmptyMap]

\* the index last saved, after a _save_cache with outcome sv
AfterSave(sv) == IF sv.warn \/ sv.raised THEN saved ELSE sv.disk

\* the holders of the history `given`: the instances, and 0 for a generator
\* constructed without cache
Holders == Insts \cup {0}
NoGiven == [k \in CanonPaths |-> None]

\* the record of a call: its arguments, its result, whether it printed a
\* warning, whether it raised, and the number of entries the instance held
\* when it was made
Call(op, i, p, c, ret, warn, raised) ==
    [op |-> op, inst |-> i, path |-> p, content |-> c, ret |-> ret, warn |-> warn,
     raised |-> raised,
     before |-> IF i \in Insts THEN Cardinality(DOMAIN caches[i].cache_data) ELSE 0]

\* DiagramCache.__init__ for instance i: mkdir, then _load_cache
Construct(i) ==
    LET mk == Mkdir(CacheDir)
    IN  IF mk.raised
        THEN /\ caches' = [caches EXCEPT ![i] = NoInstance]
             /\ snap' = [snap EXCEPT ![i] = [k \in CanonPaths |-> NoSnap]]
             /\ given' = [given EXCEPT ![i] = NoGiven]
             /\ last' = Call("construct", i, NoPath, None, mk.err, FALSE, TRUE)
             /\ UNCHANGED <<fs, outs, cwd, disk, saved, generator, dirs>>
        ELSE \E err \in LoadErrors(disk) :
                LET ld == LoadCache(disk, err)
                IN  /\ caches' = [caches EXCEPT ![i] =
                           IF ld.raised THEN NoInstance ELSE Instance(ld.data)]
                    /\ snap' = [snap EXCEPT ![i] = [k \in CanonPaths |-> NoSnap]]
                    /\ given' = [given EXCEPT ![i] = NoGiven]
                    /\ dirs' = mk.dirs
                    /\ last' = Call("construct", i, NoPath, None,
                                    IF ld.raised THEN err ELSE "ok", ld.warn, ld.raised)
                    /\ UNCHANGED <<fs, outs, cwd, disk, saved, generator>>

\* cache_diagram storing the entry under the path as given, not resolved
CacheDiagram_RawKey(i, p, content, output_files, metadata, now, io) ==
    /\ caches[i].alive
    /\ LET cache_key == p
           content_hash == IF content # None
                           THEN CalculateContentHash(content)
                           ELSE CalculateFileHash(p, cwd)
           last_modified == IF PathExists(p, cwd)
                            THEN FromTimestamp(StatMtime(p, cwd))
                            ELSE now
           entry == [file_path |-> p,
                     content_hash |-> content_hash,
                     last_modified |-> last_modified,
                     output_files |-> OrEmpty(output_files),
                     metadata |-> OrEmpty(metadata)]
           d == MapPut(caches[i].cache_data, cache_key, entry)
           sv == SaveCache(d, io)
       IN  /\ caches' = [caches EXCEPT ![i].cache_data = d]
           /\ disk' = sv.disk
           /\ snap' = [snap EXCEPT ![i][Resolve(p, cwd)] =
                         IF content = None /\ PathExists(p, cwd)
                         THEN fs[Resolve(p, cwd)].bytes ELSE NoSnap]
           /\ saved' = AfterSave(sv)
           /\ given' = [given EXCEPT ![i][Resolve(p, cwd)] = content]
           /\ last' = Call("cache_diagram", i, p, content, "None", sv.warn, sv.raised)
    /\ UNCHANGED <<fs, outs, cwd, generator, dirs>>

\* cache_data after cache_diagram: the entry built from the arguments and
\* the file system, stored under the canonical key
CachedData(d, p, content, output_files, metadata, now) ==
    LET cache_key == Resolve(p, cwd)
        content_hash == IF content # None
                        THEN CalculateContentHash(content)
                        ELSE CalculateFileHash(p, cwd)
        last_modified == IF PathExists(p, cwd)
                         THEN FromTimestamp(StatMtime(p, cwd))
                         ELSE now
    IN  MapPut(d, cache_key, [file_path |-> p,
                              content_hash |-> content_hash,
                              last_modified |-> last_modified,
                              output_files |-> OrEmpty(output_files),
                              metadata |-> OrEmpty(metadata)])

\* cache_diagram replacing cache_data by the one new entry
CacheDiagram_DropsOthers(i, p, content, output_files, metadata, now, io) ==
    /\ caches[i].alive
    /\ LET cache_key == Resolve(p, cwd)
           d == CachedData(EmptyMap, p, content, output_files, metadata, now)
           sv == SaveCache(d, io)
       IN  /\ caches' = [caches EXCEPT ![i].cache_data = d]
           /\ disk' = sv.disk
           /\ snap' = [snap EXCEPT ![i][cache_key] =
                         IF content = None /\ PathExists(p, cwd)
                         THEN fs[cache_key].bytes ELSE NoSnap]
           /\ saved' = AfterSave(sv)
           /\ given' = [given EXCEPT ![i][cache_key] = content]
           /\ last' = Call("cache_diagram", i, p, content, "None", sv.warn, sv.raised)
    /\ UNCHANGED <<fs, outs, cwd, generator, dirs>>

\* DiagramCache.cache_diagram; now is datetime.now(), io the fate of the save
CacheDiagram(i, p, content, output_files, metadata, now, io) ==
    /\ caches[i].alive
    /\ LET cache_key == Resolve(p, cwd)
           content_hash == IF content # None
                           THEN CalculateContentHash(content)
                           ELSE CalculateFileHash(p, cwd)
           last_modified == IF PathExists(p, cwd)
                            THEN FromTimestamp(StatMtime(p, cwd))
                            ELSE now
           entry == [file_path |-> p,
                     content_hash |-> content_hash,
                     last_modified |-> last_modified,
                     output_files |-> OrEmpty(output_files),
                     metadata |-> OrEmpty(metadata)]
           d == MapPut(caches[i].cache_data, cache_key, entry)
           sv == SaveCache(d, io)
       IN  /\ caches' = [caches EXCEPT ![i].cache_data = d]
           /\ disk' = sv.disk
           /\ snap' = [snap EXCEPT ![i][cache_key] =
                         IF content = None /\ PathExists(p, cwd)
                         THEN fs[cache_key].bytes ELSE NoSnap]
           /\ saved' = AfterSave(sv)
           /\ given' = [given EXCEPT ![i][cache_key] = content]
           /\ last' = Call("cache_diagram", i, p, content, "None", sv.warn, sv.raised)
    /\ UNCHANGED <<fs, outs, cwd, generator, dirs>>

\* DiagramCache.is_cached
IsCachedCall(i, p, content) ==
    /\ caches[i].alive
    /\ last' = Call("is_cached", i, p, content,
                    IsCached(caches[i].cache_data, p, content), FALSE, FALSE)
    /\ UNCHANGED <<fs, outs, cwd, disk, caches, snap, saved, given, generator, dirs>>

\* DiagramCache.get_cached_outputs
GetCachedOutputsCall(i, p) ==
    /\ caches[i].alive
    /\ last' = Call("get_cached_outputs", i, p, None,
                    GetCachedOutputs(caches[i].cache_data, p), FALSE, FALSE)
    /\ UNCHANGED <<fs, outs, cwd, disk, caches, snap, saved, given, generator, dirs>>

\* invalidate looking the path up as given, not resolved
Invalidate_RawKey(i, p, io) ==
    /\ caches[i].alive
    /\ LET cache_key == p
       IN  IF cache_key \in DOMAIN caches[i].cache_data
           THEN LET d == MapDrop(caches[i].cache_data, {cache_key})
                    sv == SaveCache(d, io)
                IN  /\ caches' = [caches EXCEPT ![i].cache_data = d]
                    /\ disk' = sv.disk
                    /\ saved' = AfterSave(sv)
                    /\ given' = [given EXCEPT ![i][cache_key] = None]
                    /\ last' = Call("invalidate", i, p, None, "None", sv.warn, sv.raised)
           ELSE /\ UNCHANGED <<caches, disk, saved, given>>
                /\ last' = Call("invalidate", i, p, None, "None", FALSE, FALSE)
    /\ UNCHANGED <<fs, outs, cwd, snap, generator, dirs>>

\* invalidate saving the index whether or not an entry was removed
Invalidate_AlwaysSaves(i, p, io) ==
    /\ caches[i].alive
    /\ LET cache_key == Resolve(p, cwd)
           d == MapDrop(caches[i].cache_data, {cache_key})
           sv == SaveCache(d, io)
       IN  /\ caches' = [caches EXCEPT ![i].cache_data = d]
           /\ disk' = sv.disk
           /\ saved' = AfterSave(sv)
           /\ given' = [given EXCEPT ![i][cache_key] = None]
           /\ last' = Call("invalidate", i, p, None, "None", sv.warn, sv.raised)
    /\ UNCHANGED <<fs, outs, cwd, snap, generator, dirs>>

\* invalidate removing the entry from memory without saving the index
Invalidate_NoSave(i, p, io) ==
    /\ caches[i].alive
    /\ LET cache_key == Resolve(p, cwd)
       IN  /\ caches' = [caches EXCEPT ![i].cache_data = MapDrop(@, {cache_key})]
           /\ given' = [given EXCEPT ![i][cache_key] = None]
           /\ last' = Call("invalidate", i, p, None, "None", FALSE, FALSE)
    /\ UNCHANGED <<fs, outs, cwd, disk, snap, saved, generator, dirs>>

\* DiagramCache.invalidate
Invalidate(i, p, io) ==
    /\ caches[i].alive
    /\ LET cache_key == Resolve(p, cwd)
       IN  IF cache_key \in DOMAIN caches[i].cache_data
           THEN LET d == MapDrop(caches[i].cache_data, {cache_key})
                    sv == SaveCache(d, io)
                IN  /\ caches' = [caches EXCEPT ![i].cache_data = d]
                    /\ disk' = sv.disk
                    /\ saved' = AfterSave(sv)
                    /\ given' = [given EXCEPT ![i][cache_key] = None]
                    /\ last' = Call("invalidate", i, p, None, "None", sv.warn, sv.raised)
           ELSE /\ UNCHANGED <<caches, disk, saved, given>>
                /\ last' = Call("invalidate", i, p, None, "None", FALSE, FALSE)
    /\ UNCHANGED <<fs, outs, cwd, snap, generator, dirs>>

\* clear saving the index without emptying cache_data
Clear_SaveOnly(i, io) ==
    /\ caches[i].alive
    /\ LET sv == SaveCache(caches[i].cache_data, io)
       IN  /\ caches' = caches
           /\ disk' = sv.disk
           /\ saved' = AfterSave(sv)
           /\ given' = given
           /\ last' = Call("clear", i, NoPath, None, "None", sv.warn, sv.raised)
    /\ UNCHANGED <<fs, outs, cwd, snap, generator, dirs>>

\* DiagramCache.clear
Clear(i, io) ==
    /\ caches[i].alive
    /\ LET sv == SaveCache(EmptyMap, io)
       IN  /\ caches' = [caches EXCEPT ![i].cache_data = EmptyMap]
           /\ disk' = sv.disk
           /\ saved' = AfterSave(sv)
           /\ given' = [given EXCEPT ![i] = NoGiven]
           /\ last' = Call("clear", i, NoPath, None, "None", sv.warn, sv.raised)
    /\ UNCHANGED <<fs, outs, cwd, snap, generator, dirs>>

\* cleanup_stale_entries deleting one stale key only
CleanupStaleEntries_FirstOnly(i, io) ==
    /\ caches[i].alive
    /\ LET stale_keys == StaleKeys(caches[i].cache_data)
           d == IF stale_keys = {} THEN caches[i].cache_data
                ELSE MapDrop(caches[i].cache_data, {CHOOSE k \in stale_keys : TRUE})
       IN  IF stale_keys # {}
           THEN LET sv == SaveCache(d, io)
                IN  /\ caches' = [caches EXCEPT ![i].cache_data = d]
                    /\ disk' = sv.disk
                    /\ saved' = AfterSave(sv)
                    /\ given' = [given EXCEPT ![i] =
                                   [k \in CanonPaths |->
                                      IF k \in DOMAIN d THEN given[i][k] ELSE None]]
                    /\ last' = Call("cleanup_stale_entries", i, NoPath, None,
                                    Cardinality(stale_keys), sv.warn, sv.raised)
           ELSE /\ UNCHANGED <<caches, disk, saved, given>>
                /\ last' = Call("cleanup_stale_entries", i, NoPath, None, 0, FALSE, FALSE)
    /\ UNCHANGED <<fs, outs, cwd, snap, generator, dirs>>

\* DiagramCache.cleanup_stale_entries
CleanupStaleEntries(i, io) ==
    /\ caches[i].alive
    /\ LET stale_keys == StaleKeys(caches[i].cache_data)
           d == MapDrop(caches[i].cache_data, stale_keys)
       IN  IF stale_keys # {}
           THEN LET sv == SaveCache(d, io)
                IN  /\ caches' = [caches EXCEPT ![i].cache_data = d]
                    /\ disk' = sv.disk
                    /\ saved' = AfterSave(sv)
                    /\ given' = [given EXCEPT ![i] =
                                   [k \in CanonPaths |->
                                      IF k \in DOMAIN d THEN given[i][k] ELSE None]]
                    /\ last' = Call("cleanup_stale_entries", i, NoPath, None,
                                    Cardinality(stale_keys), sv.warn, sv.raised)
           ELSE /\ UNCHANGED <<caches, disk, saved, given>>
                /\ last' = Call("cleanup_stale_entries", i, NoPath, None, 0, FALSE, FALSE)
    /\ UNCHANGED <<fs, outs, cwd, snap, generator, dirs>>

\* DiagramCache.get_cache_stats
GetCacheStatsCall(i) ==
    /\ caches[i].alive
    /\ last' = Call("get_cache_stats", i, NoPath, None,
                    GetCacheStats(caches[i].cache_data), FALSE, FALSE)
    /\ UNCHANGED <<fs, outs, cwd, disk, caches, snap, saved, given, generator, dirs>>

---------------------------------------------------------------------------
(* The cache methods of DiagramGenerator *)

\* `not self.enable_cache or not self.cache`
NoCache == ~generator.enable_cache \/ generator.cache = 0

\* DiagramGenerator.is_diagram_cached
IsDiagramCached(diagram_key, content) ==
    IF NoCache
    THEN /\ last' = Call("is_diagram_cached", 0, diagram_key, content,
                         FALSE, FALSE, FALSE)
         /\ UNCHANGED <<fs, outs, cwd, disk, caches, snap, saved, given, generator, dirs>>
    ELSE IsCachedCall(generator.cache, diagram_key, content)

\* DiagramGenerator.get_cached_outputs
GetCachedOutputsGen(diagram_key) ==
    IF NoCache
    THEN /\ last' = Call("generator.get_cached_outputs", 0, diagram_key, None,
                         NoneMap, FALSE, FALSE)
         /\ UNCHANGED <<fs, outs, cwd, disk, caches, snap, saved, given, generator, dirs>>
    ELSE GetCachedOutputsCall(generator.cache, diagram_key)

\* DiagramGenerator.cache_diagram_outputs
CacheDiagramOutputs(diagram_key, output_files, content, metadata, now, io) ==
    IF NoCache
    THEN /\ last' = Call("cache_diagram_outputs", 0, diagram_key, content,
                         "None", FALSE, FALSE)
         /\ given' = [given EXCEPT ![0][Resolve(diagram_key, cwd)] = content]
         /\ UNCHANGED <<fs, outs, cwd, disk, caches, snap, saved, generator, dirs>>
    ELSE CacheDiagram(generator.cache, diagram_key, content, output_files,
                      metadata, now, io)

\* DiagramGenerator.clear_cache
ClearCache(io) ==
    IF generator.cache = 0
    THEN /\ last' = Call("clear_cache", 0, NoPath, None, "None", FALSE, FALSE)
         /\ UNCHANGED <<fs, outs, cwd, disk, caches, snap, saved, given, generator, dirs>>
    ELSE Clear(generator.cache, io)

\* get_cache_stats giving the statistics of an empty cache when there is none
GetCacheStatsGen_ZeroStats ==
    /\ last' = Call("generator.get_cache_stats", generator.cache, NoPath, None,
                    IF generator.cache = 0
                    THEN [cache_enabled |-> FALSE, total_entries |-> 0,
                          total_outputs |-> 0]
                    ELSE LET stats == GetCacheStats(caches[generator.cache].cache_data)
                         IN  [total_entries |-> stats.total_entries,
                              total_outputs |-> stats.total_outputs,
                              cache_file_size |-> stats.cache_file_size,
                              cache_file_path |-> stats.cache_file_path,
                              cache_enabled |-> TRUE],
                    FALSE, FALSE)
    /\ UNCHANGED <<fs, outs, cwd, disk, caches, snap, saved, given, generator, dirs>>

\* DiagramGenerator.get_cache_stats
GetCacheStatsGen ==
    /\ last' = Call("generator.get_cache_stats", generator.cache, NoPath, None,
                    IF generator.cache = 0
                    THEN [cache_enabled |-> FALSE]
                    ELSE LET stats == GetCacheStats(caches[generator.cache].cache_data)
                         IN  [total_entries |-> stats.total_entries,
                              total_outputs |-> stats.total_outputs,
                              cache_file_size |-> stats.cache_file_size,
                              cache_file_path |-> stats.cache_file_path,
                              cache_enabled |-> TRUE],
                    FALSE, FALSE)
    /\ UNCHANGED <<fs, outs, cwd, disk, caches, snap, saved, given, generator, dirs>>

\* One request of a build for the diagram diagram_key with source content:
\* is_diagram_cached, then get_cached_outputs; when the first is true and the
\* second not None the recorded outputs are reused and nothing is generated,
\* else the diagram is generated again (giving the mapping produced) and
\* cache_diagram_outputs is called
Request(diagram_key, content, produced, now, io) ==
    LET d == IF NoCache THEN EmptyMap ELSE caches[generator.cache].cache_data
        hit == IF NoCache THEN FALSE ELSE IsCached(d, diagram_key, content)
        outputs == IF NoCache THEN NoneMap ELSE GetCachedOutputs(d, diagram_key)
    IN  IF hit /\ outputs # NoneMap
        THEN /\ last' = Call("reuse", generator.cache, diagram_key, content,
                             outputs, FALSE, FALSE)
             /\ UNCHANGED <<fs, outs, cwd, disk, caches, snap, saved, given, generator, dirs>>
        ELSE CacheDiagramOutputs(diagram_key, produced, content, MetaNone, now, io)

---------------------------------------------------------------------------
(* The environment: what the tests and the build do to the file system *)

Env(op, p) == Call(op, 0, p, None, "None", FALSE, FALSE)

\* write_text on a source file, or os.utime: bytes b, modification time t
WriteFile(f, b, t) ==
    /\ fs' = [fs EXCEPT ![f] = File(b, t, IF fs[f].exists THEN fs[f].readable ELSE TRUE)]
    /\ fs'[f] # fs[f]
    /\ last' = Env("write", f)
    /\ UNCHANGED <<outs, cwd, disk, caches, snap, saved, given, generator, dirs>>

\* unlink
DeleteFile(f) ==
    /\ fs[f].exists
    /\ fs' = [fs EXCEPT ![f] = NoFile]
    /\ last' = Env("unlink", f)
    /\ UNCHANGED <<outs, cwd, disk, caches, snap, saved, given, generator, dirs>>

\* chmod: the file can or cannot be opened for reading
Chmod(f) ==
    /\ fs[f].exists
    /\ fs' = [fs EXCEPT ![f].readable = ~@]
    /\ last' = Env("chmod", f)
    /\ UNCHANGED <<outs, cwd, disk, caches, snap, saved, given, generator, dirs>>

\* os.chdir
Chdir(dir) ==
    /\ cwd # dir
    /\ cwd' = dir
    /\ last' = Env("chdir", dir)
    /\ UNCHANGED <<fs, outs, disk, caches, snap, saved, given, generator, dirs>>

\* os.makedirs(exist_ok=True) of the parent of cache_dir
MakeParent ==
    /\ CacheParent \notin dirs
    /\ dirs' = dirs \cup {CacheParent}
    /\ last' = Env("makedirs", CacheParent)
    /\ UNCHANGED <<fs, outs, cwd, disk, caches, snap, saved, given, generator>>

\* shutil.rmtree of the parent of cache_dir, with all it holds
RemoveTree ==
    /\ CacheParent \in dirs
    /\ dirs' = {}
    /\ disk' = NoIndex
    /\ last' = Env("rmtree", CacheParent)
    /\ UNCHANGED <<fs, outs, cwd, caches, snap, saved, given, generator>>

\* an output file is written or removed
ToggleOutput(o) ==
    /\ outs' = IF o \in outs THEN outs \ {o} ELSE outs \cup {o}
    /\ last' = Env("output", o)
    /\ UNCHANGED <<fs, cwd, disk, caches, snap, saved, given, generator, dirs>>

---------------------------------------------------------------------------
(* Spec: one cache over one source file whose bytes, modification time and *)
(* permissions change                                                      *)

NoCall == Call("none", 0, NoPath, None, "None", FALSE, FALSE)
NoSnaps == [i \in Insts |-> [k \in CanonPaths |-> NoSnap]]
NoGivens == [i \in Holders |-> NoGiven]

\* DiagramGenerator(config, enable_cache): cache is the instance it holds,
\* 0 for None
Generator(enable_cache) ==
    [enable_cache |-> enable_cache, cache |-> IF enable_cache THEN 1 ELSE 0]
OneCache == [i \in Insts |-> IF i = 1 THEN Instance(EmptyMap) ELSE NoInstance]

Init ==
    /\ fs \in {[f \in CanonPaths |-> IF f = AbsWA THEN x ELSE NoFile] :
                  x \in {NoFile, File(BytesA, 0, TRUE)}}
    /\ outs = {}
    /\ cwd = DirW
    /\ disk = NoIndex
    /\ caches = OneCache
    /\ last = NoCall
    /\ snap = NoSnaps
    /\ saved = NoSaved
    /\ given = NoGivens
    /\ generator = Generator(TRUE)
    /\ dirs = AllDirs

FilePaths == {RelA, AbsWA}

Next ==
    \/ \E p \in FilePaths, c \in {None} \cup Strs, now \in Times :
           CacheDiagram(1, p, c, OutNone, MetaNone, now, "ok")
    \/ \E p \in FilePaths, c \in {None} \cup Strs : IsCachedCall(1, p, c)
    \/ \E p \in FilePaths : Invalidate(1, p, "ok")
    \/ \E b \in ByteStrings, t \in Times : WriteFile(AbsWA, b, t)
    \/ DeleteFile(AbsWA)
    \/ Chmod(AbsWA)

Spec == Init /\ [][Next]_vars

---------------------------------------------------------------------------
(* Claims C1 to C3: staleness of an entry against its source file *)

LastKey == Resolve(last.path, cwd)
LastData == caches[last.inst].cache_data

\* the paths that name canonical path k in the current working directory
PathsOf(k) == {p \in SourcePaths : Resolve(p, cwd) = k}

NoEntryNotCached ==
    \A i \in Insts, p \in SourcePaths :
        (/\ caches[i].alive
         /\ PathExists(p, cwd)
         /\ Resolve(p, cwd) \notin DOMAIN caches[i].cache_data)
        => ~IsCached(caches[i].cache_data, p, None)

\* C1 as stated: is_cached(path) of an existing file is false while its key
\* has no entry, and true right after any cache_diagram(path, ...)
C1_AsStated ==
    /\ NoEntryNotCached
    /\ (last.op = "cache_diagram" /\ PathExists(last.path, cwd))
        => IsCached(LastData, last.path, None)

ContentIsFileBytes ==
    \/ last.content = None
    \/ /\ fs[LastKey].readable
       /\ Utf8Encode(last.content) = fs[LastKey].bytes

\* C1, amended: is_cached(path) of an existing file is false while its key
\* has no entry, and true right after a cache_diagram(path, ...) that was
\* given no content, or a content whose UTF-8 bytes are the bytes of the
\* readable file, whatever entry the key had before
C1_CachedAfterWrite ==
    /\ NoEntryNotCached
    /\ (last.op = "cache_diagram" /\ PathExists(last.path, cwd)
            /\ ContentIsFileBytes)
        => IsCached(LastData, last.path, None)

C1_Witness ==
    /\ last.op = "cache_diagram"
    /\ PathExists(last.path, cwd)
    /\ last.content = None
    /\ fs[LastKey].mtime > 0
    /\ IsCached(LastData, last.path, None)

\* C2: once cache_diagram(path) has hashed an existing file, is_cached(path)
\* is false whenever the file exists with other bytes than the hashed ones,
\* wherever its modification time stands
C2_ChangedBytesMiss ==
    \A i \in Insts, k \in CanonPaths :
        (/\ caches[i].alive
         /\ snap[i][k] # NoSnap
         /\ fs[k].exists
         /\ fs[k].bytes # snap[i][k])
        => \A p \in PathsOf(k) : ~IsCached(caches[i].cache_data, p, None)

\* C3: without content and with the file on disk, is_cached is true only if
\* the file is not newer than the entry and its digest is the stored one;
\* when the file is not newer the result is the equality of the digests
C3_FileMode ==
    (/\ last.op = "is_cached"
     /\ last.content = None
     /\ PathExists(last.path, cwd)
     /\ LastKey \in DOMAIN LastData)
    => LET entry == LastData[LastKey]
           notNewer == fs[LastKey].mtime <= entry.last_modified
           sameDigest == CalculateFileHash(last.path, cwd) = entry.content_hash
       IN  /\ last.ret => (notNewer /\ sameDigest)
           /\ notNewer => (last.ret <=> sameDigest)

C3_Witness ==
    /\ last.op = "is_cached"
    /\ last.content = None
    /\ PathExists(last.path, cwd)
    /\ LastKey \in DOMAIN LastData
    /\ fs[LastKey].mtime < LastData[LastKey].last_modified
    /\ fs[LastKey].readable
    /\ Sha256Hex(fs[LastKey].bytes) # LastData[LastKey].content_hash
    /\ last.ret = FALSE

---------------------------------------------------------------------------
(* SpecOps: one cache over two source files that come and go, named by     *)
(* absolute and relative paths                                             *)

InitOps ==
    /\ fs = [f \in CanonPaths |-> File(BytesA, 0, TRUE)]
    /\ outs = AbsOutputs
    /\ cwd = DirW
    /\ disk = NoIndex
    /\ caches = OneCache
    /\ last = NoCall
    /\ snap = NoSnaps
    /\ saved = NoSaved
    /\ given = NoGivens
    /\ generator = Generator(TRUE)
    /\ dirs = AllDirs

OpsContents == {None, StrA}
OpsOutputs == {OutNone, OutBoth}

NextOps ==
    \/ \E p \in SourcePaths, c \in OpsContents, o \in OpsOutputs :
           CacheDiagram(1, p, c, o, MetaNone, MaxTime, "ok")
    \/ \E p \in SourcePaths, c \in OpsContents : IsCachedCall(1, p, c)
    \/ \E p \in SourcePaths : GetCachedOutputsCall(1, p)
    \/ \E p \in SourcePaths : Invalidate(1, p, "ok")
    \/ Clear(1, "ok")
    \/ CleanupStaleEntries(1, "ok")
    \/ GetCacheStatsCall(1)
    \/ \E f \in CanonPaths : WriteFile(f, BytesA, 0)
    \/ \E f \in CanonPaths : DeleteFile(f)
    \/ \E o \in AbsOutputs : ToggleOutput(o)

SpecOps == InitOps /\ [][NextOps]_vars

---------------------------------------------------------------------------
(* Claims C5 to C8: invalidate, clear, cleanup_stale_entries, statistics *)

Contents == {None} \cup Strs

\* a key without entry is a miss for every path naming it
AbsentIsMiss ==
    \A i \in Insts, k \in CanonPaths :
        (caches[i].alive /\ k \notin DOMAIN caches[i].cache_data)
        => \A p \in PathsOf(k) :
               /\ \A c \in Contents : ~IsCached(caches[i].cache_data, p, c)
               /\ GetCachedOutputs(caches[i].cache_data, p) = NoneMap

\* an instance gets an entry for a key only from cache_diagram on that key
OnlyCacheDiagramAdds ==
    \A i \in Insts, k \in CanonPaths :
        (/\ caches[i].alive /\ caches'[i].alive
         /\ k \notin DOMAIN caches[i].cache_data
         /\ k \in DOMAIN caches'[i].cache_data)
        => \/ /\ last'.op = "cache_diagram"
              /\ last'.inst = i
              /\ Resolve(last'.path, cwd) = k
           \/ last'.op = "construct" /\ last'.inst = i

\* C5: invalidate(path) leaves no entry under the key of path, a key without
\* entry is a miss for is_cached (with or without content) and for
\* get_cached_outputs, and the key stays without entry until a cache_diagram
\* on that key
C5_Invalidate ==
    /\ [](last.op = "invalidate" => LastKey \notin DOMAIN LastData)
    /\ []AbsentIsMiss
    /\ [][OnlyCacheDiagramAdds]_vars

C5_Witness ==
    /\ last.op = "invalidate"
    /\ last.before = 2
    /\ last.path = RelA
    /\ fs[LastKey].exists
    /\ DOMAIN LastData = {AbsXA}

\* C6: after clear() cache_data is empty, is_cached is false for every path
\* and get_cache_stats reports no entry
C6_Clear ==
    last.op = "clear"
    => /\ LastData = EmptyMap
       /\ \A p \in SourcePaths, c \in Contents : ~IsCached(LastData, p, c)
       /\ GetCacheStats(LastData).total_entries = 0

C6_Witness ==
    /\ last.op = "clear"
    /\ last.before = 2
    /\ \A f \in CanonPaths : fs[f].exists

\* C7: cleanup_stale_entries removes the entries whose file_path does not
\* exist and no other, returns the number of entries removed, and leaves the
\* other entries, and is_cached for them, as they were
C7_Cleanup ==
    [][\A i \in Insts :
         (last'.op = "cleanup_stale_entries" /\ last'.inst = i)
         => LET d == caches[i].cache_data
                stale == {k \in DOMAIN d : ~PathExists(d[k].file_path, cwd)}
            IN  /\ DOMAIN caches'[i].cache_data = (DOMAIN d) \ stale
                /\ last'.ret = Cardinality(stale)
                /\ \A k \in (DOMAIN d) \ stale :
                       /\ caches'[i].cache_data[k] = d[k]
                       /\ \A p \in PathsOf(k) :
                              IsCached(caches[i].cache_data, p, None)'
                                  = IsCached(d, p, None)]_vars

C7_Witness ==
    /\ last.op = "cleanup_stale_entries"
    /\ last.before = 2
    /\ last.ret = 1
    /\ \E k \in DOMAIN LastData : IsCached(LastData, k, None)

OutputLabels == {"json", "png"}

StatsCount ==
    last.op = "get_cache_stats"
    => /\ last.ret.total_entries = Cardinality(DOMAIN LastData)
       /\ last.ret.total_outputs =
              Cardinality({x \in (DOMAIN LastData) \X OutputLabels :
                              x[2] \in DOMAIN LastData[x[1]].output_files})

CacheDiagramCounts ==
    \A i \in Insts :
        (caches[i].alive /\ caches'[i].alive /\ last'.op # "construct")
        => LET n == GetCacheStats(caches[i].cache_data).total_entries
               m == GetCacheStats(caches[i].cache_data)'.total_entries
           IN  IF last'.op = "cache_diagram" /\ last'.inst = i
                  /\ Resolve(last'.path, cwd) \notin DOMAIN caches[i].cache_data
               THEN m = n + 1
               ELSE m <= n

\* C8: get_cache_stats reports the number of entries and the sum of the sizes
\* of their output_files; a cache_diagram on a key without entry adds one to
\* total_entries, and no other call adds to it
C8_Stats == []StatsCount /\ [][CacheDiagramCounts]_vars

C8_Witness ==
    /\ last.op = "get_cache_stats"
    /\ last.ret.total_entries = 2
    /\ last.ret.total_outputs = 2

---------------------------------------------------------------------------
(* SpecPersist: instances constructed on one cache directory whose index   *)
(* file may be damaged at the start, with saves that may fail              *)

GoodDict ==
    [file_path |-> AbsWA,
     content_hash |-> Sha256Hex(BytesA),
     last_modified |-> IsoFormat(1),
     output_files |-> OutRel,
     metadata |-> EmptyMap]

Without(d, field) == [f \in (DOMAIN d) \ {field} |-> d[f]]
OneEntry(d) == JsonIndex([k \in {AbsWA} |-> d])

\* index files found at the start: none, one written by an earlier run, and
\* damaged ones
InitialIndexes ==
    {NoIndex,
     Garbage,
     OneEntry(GoodDict),
     OneEntry(Without(GoodDict, "last_modified")),
     OneEntry(Without(GoodDict, "content_hash")),
     OneEntry([GoodDict EXCEPT !.last_modified = BadIso]),
     JsonIndex([k \in CanonPaths |->
                  IF k = AbsWA THEN GoodDict
                  ELSE [GoodDict EXCEPT !.file_path = AbsXA,
                                        !.last_modified = BadIso]])}

InitPersist ==
    /\ fs = [f \in CanonPaths |-> IF f = AbsWA THEN File(BytesA, 1, TRUE) ELSE NoFile]
    /\ outs \in {{}, AbsOutputs}
    /\ cwd = DirW
    /\ disk \in InitialIndexes
    /\ caches = [i \in Insts |-> NoInstance]
    /\ last = NoCall
    /\ snap = NoSnaps
    /\ saved = NoSaved
    /\ given = NoGivens
    /\ generator = Generator(TRUE)
    /\ dirs = AllDirs

PersistOutputs == {OutBoth}
PersistMetadata == {MetaNone, MetaTuple, MetaObject}

\* instance 1 is the cache of the running build, instance 2 a cache
\* constructed on the same directory to read what was persisted
NextPersist ==
    \/ \E i \in Insts : Construct(i)
    \/ \E p \in CanonPaths, o \in PersistOutputs,
          m \in PersistMetadata, io \in SaveOutcomes :
           CacheDiagram(1, p, None, o, m, MaxTime, io)
    \/ \E p \in CanonPaths : IsCachedCall(2, p, None)
    \/ \E p \in CanonPaths : GetCachedOutputsCall(2, p)
    \/ \E p \in CanonPaths, io \in SaveOutcomes : Invalidate(1, p, io)
    \/ \E io \in SaveOutcomes : Clear(1, io)
    \/ \E io \in SaveOutcomes : CleanupStaleEntries(1, io)
    \/ GetCacheStatsCall(2)

SpecPersist == InitPersist /\ [][NextPersist]_vars

---------------------------------------------------------------------------
(* Claims C4, C9 and C10: the index file *)

\* the call before was a cache_diagram and this one constructs another instance
ConstructAfterCacheDiagram(w, r) ==
    /\ last.op = "cache_diagram" /\ last.inst = w
    /\ last'.op = "construct" /\ last'.inst = r
    /\ w # r

JsonNative(e) == \A k \in DOMAIN e.metadata : JsonValue(e.metadata[k]) = e.metadata[k]
OutputsOnDisk(e) ==
    \A f \in DOMAIN e.output_files :
        IsAbsolute(e.output_files[f]) => PathExists(e.output_files[f], cwd)

Damaged(ix) ==
    \/ ix.kind = "garbage"
    \/ /\ ix.kind = "json"
       /\ \E k \in DOMAIN ix.data :
              \/ ~(EntryFields \subseteq DOMAIN ix.data[k])
              \/ ("last_modified" \in DOMAIN ix.data[k]
                     /\ ~IsoValid(ix.data[k].last_modified))

\* C9: constructing a DiagramCache does not raise, whatever the index file
\* holds; on a damaged index it prints a warning and completes
C9_LoadNeverRaises ==
    last.op = "construct"
    => /\ ~last.raised
       /\ caches[last.inst].alive
       /\ Damaged(disk) => last.warn

Mutators == {"cache_diagram", "invalidate", "clear", "cleanup_stale_entries"}

\* what a call that returned has done to the cache_data of its instance
Effect ==
    LET n == GetCacheStats(LastData).total_entries
    IN  /\ last.op = "cache_diagram"
           => /\ LastKey \in DOMAIN LastData
              /\ LastData[LastKey].file_path = last.path
              /\ IsCached(LastData, last.path, last.content)
              /\ n \in {last.before, last.before + 1}
        /\ (last.op = "invalidate" /\ last.warn)
           => /\ LastKey \notin DOMAIN LastData
              /\ ~IsCached(LastData, last.path, last.content)
              /\ GetCachedOutputs(LastData, last.path) = NoneMap
              /\ n = last.before - 1
        /\ last.op = "clear" => (LastData = EmptyMap /\ n = 0)
        /\ (last.op = "cleanup_stale_entries" /\ last.warn)
           => /\ StaleKeys(LastData) = {}
              /\ last.ret >= 1
              /\ n = last.before - last.ret

\* the cache_data of an instance changes in its own calls only
OwnCallsOnly ==
    \A i \in Insts :
        caches'[i] # caches[i]
        => last'.inst = i /\ last'.op \in Mutators \cup {"construct"}

\* C10: cache_diagram, invalidate, clear and cleanup_stale_entries return
\* without raising also when the save fails, their change of cache_data is
\* made all the same, and it stays until a later call of the instance
C10_SaveFailureKept ==
    /\ [](last.op \in Mutators => (~last.raised /\ Effect))
    /\ [][OwnCallsOnly]_vars

C10_Witness ==
    /\ last.op = "cleanup_stale_entries"
    /\ last.warn
    /\ last.ret = 1
    /\ disk.kind = "json"
    /\ DOMAIN disk.data # DOMAIN LastData

---------------------------------------------------------------------------
(* Claims C11 and C12: the entries of cache_data *)

\* C11: every entry of cache_data has a content_hash of 64 characters, also
\* after a cache_diagram without content on a file that is missing or cannot
\* be opened
C11_DigestLength ==
    \A i \in Insts :
        caches[i].alive
        => \A k \in DOMAIN caches[i].cache_data :
               HexLen(caches[i].cache_data[k].content_hash) = 64

\* the keys of cache_data are canonical paths, each the resolved file_path
\* of its entry, and the paths that resolve to one key get one answer
KeysCanonical ==
    \A i \in Insts :
        caches[i].alive
        => LET d == caches[i].cache_data
           IN  /\ DOMAIN d \subseteq CanonPaths
               /\ \A k \in DOMAIN d : Resolve(d[k].file_path, cwd) = k
               /\ \A p, q \in SourcePaths :
                      Resolve(p, cwd) = Resolve(q, cwd)
                      => /\ \A c \in Contents : IsCached(d, p, c) = IsCached(d, q, c)
                         /\ GetCachedOutputs(d, p) = GetCachedOutputs(d, q)

\* cache_diagram(p) and invalidate(p) act on the entry of the key of p alone
ActsOnKey ==
    \A i \in Insts :
        (last'.inst = i /\ last'.op \in {"cache_diagram", "invalidate"})
        => LET d == caches[i].cache_data
               e == caches'[i].cache_data
               k == Resolve(last'.path, cwd)
           IN  /\ \A j \in CanonPaths \ {k} :
                      /\ j \in DOMAIN e <=> j \in DOMAIN d
                      /\ j \in DOMAIN d => e[j] = d[j]
               /\ last'.op = "cache_diagram"
                  => /\ DOMAIN e = (DOMAIN d) \cup {k}
                     /\ e[k].file_path = last'.path
                     /\ Cardinality(DOMAIN e) =
                            Cardinality(DOMAIN d) + (IF k \in DOMAIN d THEN 0 ELSE 1)
               /\ last'.op = "invalidate" => DOMAIN e = (DOMAIN d) \ {k}

\* C12: cache_data has one entry per canonical path at most: paths that
\* resolve to the same canonical path are looked up, overwritten and
\* invalidated as one entry, and cache_diagram on a key that has an entry
\* replaces it
C12_OneEntryPerKey == []KeysCanonical /\ [][ActsOnKey]_vars

\* an entry stored under the absolute path is found, as the only entry,
\* by the relative path
C12_Witness ==
    /\ last.op = "is_cached"
    /\ last.path = RelA
    /\ last.content = None
    /\ DOMAIN LastData = {AbsWA}
    /\ LastData[AbsWA].file_path = AbsWA
    /\ last.before = 1
    /\ last.ret = TRUE

---------------------------------------------------------------------------
(* Claims C13 to C16: the answers of get_cached_outputs and is_cached *)

\* C13: get_cached_outputs(path) is None when the key has no entry or when an
\* absolute path among the recorded outputs is not on disk; otherwise it is
\* the whole recorded mapping, relative paths unchecked; never a part of it
C13_Outputs ==
    last.op = "get_cached_outputs"
    => IF LastKey \notin DOMAIN LastData THEN last.ret = NoneMap
       ELSE LET recorded == LastData[LastKey].output_files
                missing == \E f \in DOMAIN recorded :
                               IsAbsolute(recorded[f]) /\ recorded[f] \notin outs
            IN  last.ret = IF missing THEN NoneMap ELSE recorded

C13_Witness ==
    /\ last.op = "get_cached_outputs"
    /\ last.ret = OutBoth
    /\ AbsOut \in outs
    /\ ~PathExists(RelOut, cwd)

ContentAnswer ==
    (last.op = "is_cached" /\ last.content # None)
    => (last.ret <=>
           /\ LastKey \in DOMAIN LastData
           /\ Sha256Hex(Utf8Encode(last.content)) = LastData[LastKey].content_hash)

\* what is done to the source file changes no answer given with a content
FileIrrelevant ==
    last'.inst = 0
    => \A i \in Insts, p \in SourcePaths, c \in Strs :
           IsCached(caches[i].cache_data, p, c)' = IsCached(caches[i].cache_data, p, c)

\* C14: is_cached(path, content) is true exactly when the key has an entry
\* whose content_hash is the SHA-256 digest of the content, whether the source
\* file exists or not and whatever its bytes and modification time
C14_ContentMode == []ContentAnswer /\ [][FileIrrelevant]_vars

C14_Witness ==
    /\ last.op = "is_cached"
    /\ last.content # None
    /\ LastKey \in DOMAIN LastData
    /\ fs[LastKey].exists
    /\ fs[LastKey].bytes # Utf8Encode(last.content)
    /\ fs[LastKey].mtime > LastData[LastKey].last_modified
    /\ last.ret = TRUE

\* C15: without content, a file on disk whose modification time is later
\* than last_modified of the entry makes is_cached false, whatever the
\* digests, also when the bytes are those that were cached
C15_NewerIsStale ==
    (/\ last.op = "is_cached"
     /\ last.content = None
     /\ PathExists(last.path, cwd)
     /\ LastKey \in DOMAIN LastData
     /\ fs[LastKey].mtime > LastData[LastKey].last_modified)
    => last.ret = FALSE

C15_Witness ==
    /\ last.op = "is_cached"
    /\ last.content = None
    /\ PathExists(last.path, cwd)
    /\ LastKey \in DOMAIN LastData
    /\ fs[LastKey].mtime > LastData[LastKey].last_modified
    /\ fs[LastKey].readable
    /\ fs[LastKey].bytes = snap[last.inst][LastKey]
    /\ Sha256Hex(fs[LastKey].bytes) = LastData[LastKey].content_hash
    /\ last.ret = FALSE

MissingFileIsHit ==
    /\ \A i \in Insts, p \in SourcePaths :
           (/\ caches[i].alive
            /\ Resolve(p, cwd) \in DOMAIN caches[i].cache_data
            /\ ~PathExists(p, cwd))
           => IsCached(caches[i].cache_data, p, None)
    /\ (/\ last.op = "is_cached"
        /\ last.content = None
        /\ LastKey \in DOMAIN LastData
        /\ ~PathExists(last.path, cwd))
       => last.ret = TRUE

Removers == {"invalidate", "clear", "cleanup_stale_entries"}

\* an entry leaves cache_data in invalidate, clear or cleanup_stale_entries
OnlyRemoversRemove ==
    \A i \in Insts, k \in CanonPaths :
        (/\ caches[i].alive /\ caches'[i].alive
         /\ k \in DOMAIN caches[i].cache_data
         /\ k \notin DOMAIN caches'[i].cache_data)
        => last'.inst = i /\ last'.op \in Removers

\* C16: without content, is_cached is true for a key that has an entry while
\* the source file is not on disk, and the entry stays until invalidate,
\* clear or cleanup_stale_entries removes it
C16_MissingIsCached == []MissingFileIsHit /\ [][OnlyRemoversRemove]_vars

C16_Witness ==
    /\ last.op = "is_cached"
    /\ last.content = None
    /\ LastKey \in DOMAIN LastData
    /\ ~fs[LastKey].exists
    /\ snap[last.inst][LastKey] # NoSnap
    /\ last.ret = TRUE

---------------------------------------------------------------------------
(* Claim C17: the empty digest of a failed hash *)

\* C17: _calculate_file_hash gives the empty string for a file that is
\* missing or cannot be opened, and is_cached is false whenever the stored
\* content_hash is empty and whenever the digest it computes for the file is
\* empty
C17_EmptyDigestMisses ==
    /\ \A p \in SourcePaths :
           (~PathExists(p, cwd) \/ ~fs[Resolve(p, cwd)].readable)
           => CalculateFileHash(p, cwd) = EmptyDigest
    /\ (last.op = "is_cached" /\ LastKey \in DOMAIN LastData)
       => LET entry == LastData[LastKey]
              hashed == /\ last.content = None
                        /\ PathExists(last.path, cwd)
                        /\ fs[LastKey].mtime <= entry.last_modified
          IN  /\ entry.content_hash = EmptyDigest => last.ret = FALSE
              /\ (hashed /\ CalculateFileHash(last.path, cwd) = EmptyDigest)
                 => last.ret = FALSE

---------------------------------------------------------------------------
(* Claim C18: instances constructed on one cache directory *)

\* what _load_cache makes of an index that was saved
Loaded(ix) == [k \in DOMAIN ix.data |-> FromDict(ix.data[k])]

\* C18: an instance constructed after some instance has saved the index
\* holds, right after its construction, the index last saved, and its
\* construction leaves the other instances as they were
C18_LoadsLatestSaved ==
    [][\A r \in Insts :
         (last'.op = "construct" /\ last'.inst = r /\ saved.kind = "json")
         => /\ caches'[r].alive
            /\ caches'[r].cache_data = Loaded(saved)
            /\ \A i \in Insts \ {r} : caches'[i] = caches[i]]_vars

---------------------------------------------------------------------------
(* SpecGen: a DiagramGenerator, constructed with or without cache, serving *)
(* the requests of a build whose diagrams are keyed by name                *)

StrEmpty == <<>>
GenKeys == {RelA, AbsWA}
GenContents == {StrEmpty, StrA}
GenOutputs == {OutRel, OutBoth}

InitGen ==
    /\ fs = [f \in CanonPaths |-> NoFile]
    /\ outs = {}
    /\ cwd = DirW
    /\ disk = NoIndex
    /\ generator \in {Generator(TRUE), Generator(FALSE)}
    /\ caches = [i \in Insts |->
                   IF i = generator.cache THEN Instance(EmptyMap) ELSE NoInstance]
    /\ last = NoCall
    /\ snap = NoSnaps
    /\ saved = NoSaved
    /\ given = NoGivens
    /\ dirs = AllDirs

NextGen ==
    \/ \E k \in GenKeys, c \in GenContents, o \in GenOutputs :
           Request(k, c, o, MaxTime, "ok")
    \/ \E k \in GenKeys, c \in GenContents : IsDiagramCached(k, c)
    \/ \E k \in GenKeys : GetCachedOutputsGen(k)
    \/ ClearCache("ok")
    \/ GetCacheStatsGen
    \/ \E o \in AbsOutputs : ToggleOutput(o)
    \/ \E dir \in Dirs : Chdir(dir)

SpecGen == InitGen /\ [][NextGen]_vars

---------------------------------------------------------------------------
(* Claims C19 and C20: the generator in a build *)

Enabled == generator.enable_cache /\ generator.cache # 0
GenData == caches[generator.cache].cache_data

\* the entry of key k was made for content c and its outputs are intact
Reusable(k, c) ==
    /\ Enabled
    /\ k \in DOMAIN GenData
    /\ given[generator.cache][k] = c
    /\ OutputsOnDisk(GenData[k])

\* a request that reuses does so for the content the entry was made for, and
\* gets the recorded outputs, all of them
ReuseIsSound ==
    last.op = "reuse"
    => /\ Reusable(LastKey, last.content)
       /\ last.ret = GenData[LastKey].output_files

\* a request for a key, a content and outputs that are reusable generates
\* nothing: it is no call of cache_diagram
ReuseIsTaken ==
    \A k \in GenKeys, c \in GenContents :
        Reusable(Resolve(k, cwd), c)
        => ~(/\ last'.op = "cache_diagram"
             /\ last'.path = k
             /\ last'.content = c)

\* what a request does to the cache is a cache_diagram; no request raises
RequestIsCacheDiagram ==
    /\ ~last'.raised
    /\ caches' # caches
       => last'.op \in {"cache_diagram", "clear"} /\ last'.inst = generator.cache

\* C19: a build that reuses the outputs when is_cached(key, content) is true
\* and get_cached_outputs(key) is not None, and otherwise generates and calls
\* cache_diagram, never reuses for a content other than the one cached, does
\* at worst a generation too many, and on a repeated request with the same
\* key, the same content and intact outputs reuses the recorded outputs
C19_Protocol ==
    /\ []ReuseIsSound
    /\ [][ReuseIsTaken]_vars
    /\ [][RequestIsCacheDiagram]_vars

C19_Witness ==
    /\ last.op = "reuse"
    /\ last.path = RelA
    /\ last.content = StrEmpty
    /\ last.ret = OutBoth
    /\ GenData[LastKey].file_path = AbsWA

\* the answers of a generator constructed with enable_cache=False
DisabledAnswers ==
    ~generator.enable_cache
    => /\ generator.cache = 0
       /\ ~last.raised
       /\ last.op # "reuse"
       /\ last.op = "is_diagram_cached" => last.ret = FALSE
       /\ last.op = "generator.get_cached_outputs" => last.ret = NoneMap
       /\ last.op = "generator.get_cache_stats" => last.ret = [cache_enabled |-> FALSE]
       /\ last.op \in {"cache_diagram_outputs", "clear_cache"} => last.ret = "None"

\* its calls change neither a cache nor the index file nor the generator
DisabledDoesNothing ==
    ~generator.enable_cache
    => /\ caches' = caches
       /\ disk' = disk
       /\ generator' = generator

\* C20: with enable_cache=False the cache of the generator is None,
\* is_diagram_cached is false, get_cached_outputs is None,
\* cache_diagram_outputs and clear_cache do nothing and raise nothing,
\* get_cache_stats is {"cache_enabled": False}, and is_diagram_cached stays
\* false after cache_diagram_outputs
C20_Disabled == []DisabledAnswers /\ [][DisabledDoesNothing]_vars

C20_Witness ==
    /\ ~generator.enable_cache
    /\ last.op = "is_diagram_cached"
    /\ last.content # None
    /\ given[0][LastKey] = last.content
    /\ last.ret = FALSE

---------------------------------------------------------------------------
(* SpecDirs: caches constructed on a cache_dir that may be missing, with   *)
(* or without its parent                                                   *)

\* the fate of a save: open() fails when the directory of the index is gone
SaveIo == IF CacheDir \in dirs THEN "ok" ELSE "open_fail"

InitDirs ==
    /\ fs = [f \in CanonPaths |-> IF f = AbsWA THEN File(BytesA, 1, TRUE) ELSE NoFile]
    /\ outs = {}
    /\ cwd = DirW
    /\ dirs \in {{}, {CacheParent}, AllDirs}
    /\ disk \in IF CacheDir \in dirs
                THEN {NoIndex, Garbage, OneEntry(GoodDict)}
                ELSE {NoIndex}
    /\ caches = [i \in Insts |-> NoInstance]
    /\ last = NoCall
    /\ snap = NoSnaps
    /\ saved = NoSaved
    /\ given = NoGivens
    /\ generator = Generator(TRUE)

NextDirs ==
    \/ \E i \in Insts : Construct(i)
    \/ \E p \in CanonPaths : CacheDiagram(1, p, None, OutNone, MetaNone, MaxTime, SaveIo)
    \/ \E p \in CanonPaths : Invalidate(1, p, SaveIo)
    \/ CleanupStaleEntries(1, SaveIo)
    \/ \E i \in Insts, p \in CanonPaths : IsCachedCall(i, p, None)
    \/ \E i \in Insts : GetCacheStatsCall(i)
    \/ DeleteFile(AbsWA)
    \/ MakeParent
    \/ RemoveTree

SpecDirs == InitDirs /\ [][NextDirs]_vars

---------------------------------------------------------------------------
(* Claim C21: the construction of a DiagramCache *)

Constructed ==
    last.op = "construct"
    => /\ ~last.raised
       /\ CacheDir \in dirs
       /\ caches[last.inst].alive
       /\ GetCacheStats(caches[last.inst].cache_data).cache_file_path
              = CacheDir \o <<"diagram_cache.json">>

\* a construction on a cache_dir that exists leaves it and its index alone
ExistingDirKept ==
    (last'.op = "construct" /\ CacheDir \in dirs)
    => dirs' = dirs /\ disk' = disk

\* C21: constructing a DiagramCache on a cache_dir that is absent creates
\* the directory and completes: the directory exists afterwards, the index
\* is cache_dir/diagram_cache.json and cache_data is a mapping; a cache_dir
\* that exists is left unchanged with its index file
C21_DirCreated == []Constructed /\ [][ExistingDirKept]_vars

---------------------------------------------------------------------------
(* Claim C22: the two hashers *)

\* bytes read from a file and the UTF-8 bytes of a string have the same
\* digest, of 64 characters, exactly when they are the same bytes
SameBytesSameDigest ==
    /\ \A s \in Strs, b \in ByteStrings :
           /\ HexLen(CalculateContentHash(s)) = 64
           /\ (CalculateContentHash(s) = Sha256Hex(b)) <=> (Utf8Encode(s) = b)
    /\ \A p \in FilePaths, s \in Strs :
           (PathExists(p, cwd) /\ fs[Resolve(p, cwd)].readable)
           => /\ HexLen(CalculateFileHash(p, cwd)) = 64
              /\ (CalculateFileHash(p, cwd) = CalculateContentHash(s))
                     <=> (fs[Resolve(p, cwd)].bytes = Utf8Encode(s))

\* C22: the hashers are deterministic and agree, so that an entry written by
\* cache_diagram without content on a file is a hit for is_cached(path,
\* content) exactly when the UTF-8 bytes of content are the bytes the file
\* had when the entry was written
C22_HashersAgree ==
    /\ SameBytesSameDigest
    /\ \A i \in Insts, k \in CanonPaths :
           (/\ caches[i].alive
            /\ k \in DOMAIN caches[i].cache_data
            /\ snap[i][k] # NoSnap)
           => \A p \in PathsOf(k), c \in Strs :
                  IsCached(caches[i].cache_data, p, c) <=> (Utf8Encode(c) = snap[i][k])

---------------------------------------------------------------------------
(* Claim C23: operations that remove nothing *)

NothingWritten ==
    /\ caches' = caches
    /\ disk' = disk
    /\ saved' = saved
    /\ ~last'.warn
    /\ ~last'.raised

\* an invalidate whose canonical key has no entry
InvalidateOfAbsent ==
    \A i \in Insts :
        (/\ last'.op = "invalidate"
         /\ last'.inst = i
         /\ Resolve(last'.path, cwd) \notin DOMAIN caches[i].cache_data)
        => NothingWritten

\* a cleanup_stale_entries when no entry is stale
CleanupOfNone ==
    \A i \in Insts :
        (/\ last'.op = "cleanup_stale_entries"
         /\ last'.inst = i
         /\ StaleKeys(caches[i].cache_data) = {})
        => NothingWritten /\ last'.ret = 0

\* C23: invalidate on a canonical key that has no entry, and
\* cleanup_stale_entries when no entry is stale, leave cache_data unchanged
\* and do not write the index file, which is neither created when absent nor
\* rewritten when present; cleanup_stale_entries returns 0 and invalidate
\* raises no error
C23_NoRemovalNoWrite == [][InvalidateOfAbsent /\ CleanupOfNone]_vars

\* an instance that holds an entry has run a cleanup that found nothing
\* stale, or an invalidate of another key, while its directory had no index
\* file, and there is none afterwards
C23_Witness ==
    /\ last.op \in {"invalidate", "cleanup_stale_entries"}
    /\ last.op = "invalidate" => Resolve(last.path, cwd) \notin DOMAIN caches[1].cache_data
    /\ last.op = "cleanup_stale_entries" => last.ret = 0
    /\ last.before = 1
    /\ DOMAIN caches[1].cache_data # {}
    /\ CacheDir \in dirs
    /\ disk = NoIndex

---------------------------------------------------------------------------
(* Claim C24: a load that fails keeps nothing *)

StartsEmpty(i) ==
    /\ caches[i].alive
    /\ caches[i].cache_data = EmptyMap
    /\ \A p \in SourcePaths, c \in {None} \cup Strs :
           ~IsCached(caches[i].cache_data, p, c)
    /\ GetCacheStats(caches[i].cache_data).total_entries = 0

\* C24: loading is all or nothing: when parsing the index fails at any
\* entry, the instance starts as an empty cache, with no entry kept from the
\* part of the index parsed before the failing entry; is_cached is false for
\* every path and total_entries is 0 right after construction
C24_AllOrNothing ==
    (last.op = "construct" /\ Damaged(disk)) => StartsEmpty(last.inst)

---------------------------------------------------------------------------
(* SpecCwd: one cache used from two working directories *)

InitCwd ==
    /\ fs \in [CanonPaths -> {NoFile, File(BytesA, 0, TRUE)}]
    /\ outs = {}
    /\ cwd = DirW
    /\ disk = NoIndex
    /\ caches = OneCache
    /\ last = NoCall
    /\ snap = NoSnaps
    /\ saved = NoSaved
    /\ given = NoGivens
    /\ generator = Generator(TRUE)
    /\ dirs = AllDirs

NextCwd ==
    \/ \E p \in SourcePaths : CacheDiagram(1, p, None, OutNone, MetaNone, MaxTime, "ok")
    \/ CleanupStaleEntries(1, "ok")
    \/ \E p \in SourcePaths : IsCachedCall(1, p, None)
    \/ \E dir \in Dirs : Chdir(dir)
    \/ \E f \in CanonPaths : WriteFile(f, BytesA, 0)
    \/ \E f \in CanonPaths : DeleteFile(f)

SpecCwd == InitCwd /\ [][NextCwd]_vars

---------------------------------------------------------------------------
(* Claim C25: what cleanup_stale_entries looks at *)

\* cache_diagram stores the path as it was given
StoresGivenPath ==
    \A i \in Insts :
        (last'.op = "cache_diagram" /\ last'.inst = i)
        => caches'[i].cache_data[Resolve(last'.path, cwd)].file_path = last'.path

\* cleanup keeps exactly the entries whose stored file_path exists from the
\* working directory of the call
CleanupByStoredPath ==
    \A i \in Insts :
        (last'.op = "cleanup_stale_entries" /\ last'.inst = i)
        => LET d == caches[i].cache_data
               kept == {k \in DOMAIN d : PathExists(d[k].file_path, cwd)}
           IN  /\ DOMAIN caches'[i].cache_data = kept
               /\ \A k \in kept : caches'[i].cache_data[k] = d[k]
               /\ last'.ret = Cardinality(DOMAIN d \ kept)

\* C25: cleanup_stale_entries decides staleness from the entry's stored
\* file_path, the string given to cache_diagram, against the working
\* directory current at the cleanup, not from the canonical key: an entry
\* with a relative file_path is removed when the relative path does not
\* exist from the working directory although the file of its canonical key
\* exists, and kept when it exists although that file is gone
C25_StaleByStoredPath == [][StoresGivenPath /\ CleanupByStoredPath]_vars

\* a cleanup from /x, where a does not exist, removed both entries, the one
\* whose canonical key /w/a still exists included
C25_Witness ==
    /\ last.op = "cleanup_stale_entries"
    /\ last.before = 2
    /\ last.ret = 2
    /\ cwd = DirX
    /\ fs[AbsWA].exists
    /\ ~fs[AbsXA].exists

---------------------------------------------------------------------------
(* Claim C26: source keys are independent *)

KeyOps == {"is_cached", "get_cached_outputs", "cache_diagram", "invalidate"}

\* a call addressed to one key leaves the entries of the other keys, and the
\* answers for them, as they were
OtherKeysUntouched ==
    \A i \in Insts :
        (last'.op \in KeyOps /\ last'.inst = i)
        => \A k \in CanonPaths \ {Resolve(last'.path, cwd)} :
               /\ (k \in DOMAIN caches'[i].cache_data) <=> (k \in DOMAIN caches[i].cache_data)
               /\ k \in DOMAIN caches[i].cache_data
                      => caches'[i].cache_data[k] = caches[i].cache_data[k]
               /\ \A p \in PathsOf(k) :
                      /\ \A c \in OpsContents :
                             IsCached(caches[i].cache_data, p, c)'
                                 = IsCached(caches[i].cache_data, p, c)
                      /\ GetCachedOutputs(caches[i].cache_data, p)'
                             = GetCachedOutputs(caches[i].cache_data, p)

\* what a cache_diagram call leaves in memory and in the index
CacheDiagramEffect ==
    \A i \in Insts :
        (last'.op = "cache_diagram" /\ last'.inst = i)
        => \E o \in OpsOutputs :
               LET d == CachedData(caches[i].cache_data, last'.path, last'.content,
                                   o, MetaNone, MaxTime)
               IN  /\ caches'[i].cache_data = d
                   /\ disk' = SaveCache(d, "ok").disk

\* two cache_diagram calls on distinct keys, in either order
Commute ==
    \A p1, p2 \in SourcePaths, c1, c2 \in OpsContents, o1, o2 \in OpsOutputs :
        Resolve(p1, cwd) # Resolve(p2, cwd)
        => LET d == caches[1].cache_data
               d12 == CachedData(CachedData(d, p1, c1, o1, MetaNone, MaxTime),
                                 p2, c2, o2, MetaNone, MaxTime)
               d21 == CachedData(CachedData(d, p2, c2, o2, MetaNone, MaxTime),
                                 p1, c1, o1, MetaNone, MaxTime)
           IN  /\ d12 = d21
               /\ SaveCache(d12, "ok").disk = SaveCache(d21, "ok").disk

\* C26: source keys are independent: is_cached, get_cached_outputs,
\* cache_diagram and invalidate addressed to one canonical key change neither
\* the entry under another key nor the result of is_cached or
\* get_cached_outputs for another key, and two cache_diagram calls on
\* distinct keys yield the same cache_data and the same index, as mappings
\* from keys to entries, in either order
C26_KeysIndependent ==
    /\ [][OtherKeysUntouched /\ CacheDiagramEffect]_vars
    /\ []Commute

\* a cache_diagram on one key has run while the other key had an entry,
\* which is still there
C26_Witness ==
    /\ last.op = "cache_diagram"
    /\ last.before = 1
    /\ DOMAIN caches[1].cache_data = CanonPaths

---------------------------------------------------------------------------
(* SpecShared: two instances that write to the same cache directory *)

InitShared ==
    /\ fs = [f \in CanonPaths |-> NoFile]
    /\ outs = {}
    /\ cwd = DirW
    /\ disk = NoIndex
    /\ caches = [i \in Insts |-> NoInstance]
    /\ last = NoCall
    /\ snap = NoSnaps
    /\ saved = NoSaved
    /\ given = NoGivens
    /\ generator = Generator(TRUE)
    /\ dirs = AllDirs

\* instance 1 is constructed once and only adds entries; instance 2 may be
\* constructed again and removes entries too
NextShared ==
    \/ ~caches[1].alive /\ Construct(1)
    \/ Construct(2)
    \/ \E p \in CanonPaths, io \in SaveOutcomes :
           CacheDiagram(1, p, StrA, OutNone, MetaNone, MaxTime, io)
    \/ \E p \in CanonPaths : CacheDiagram(2, p, StrA, OutNone, MetaNone, MaxTime, "ok")
    \/ \E p \in CanonPaths : Invalidate(2, p, "ok")
    \/ Clear(2, "ok")
    \/ \E i \in Insts, p \in CanonPaths : IsCachedCall(i, p, StrA)

SpecShared == InitShared /\ [][NextShared]_vars

---------------------------------------------------------------------------
(* Claim C27: the last writer wins *)

\* the step is a call of instance w that saved the index without a warning
Wrote(w) ==
    /\ last'.inst = w
    /\ ~last'.warn
    /\ \/ last'.op \in {"cache_diagram", "clear"}
       \/ /\ last'.op = "invalidate"
          /\ Resolve(last'.path, cwd) \in DOMAIN caches[w].cache_data

LastWriterWins ==
    \A w \in Insts :
        Wrote(w)
        => /\ disk' = JsonIndex([k \in DOMAIN caches'[w].cache_data |->
                                   JsonEntry(ToDict(caches'[w].cache_data[k]))])
           /\ disk.kind = "json"
                  => \A k \in DOMAIN disk.data \ DOMAIN caches'[w].cache_data :
                         k \notin DOMAIN disk'.data

\* C27: with two instances on one cache directory the last writer wins:
\* a save writes the whole in-memory map of the writer, so the index after
\* the write is the writer's cache_data and the entries another instance
\* persisted after the writer was constructed are gone from the index;
\* nothing prevents the interleaving
C27_LastWriterWins == [][LastWriterWins]_vars

\* instance 2 persisted its entry for /x/a after instance 1 was constructed,
\* then instance 1 saved its own map: the index has lost /x/a
C27_Witness ==
    /\ last.op = "cache_diagram"
    /\ last.inst = 1
    /\ ~last.warn
    /\ caches[2].alive
    /\ AbsXA \in DOMAIN caches[2].cache_data
    /\ given[2][AbsXA] # None
    /\ AbsXA \notin DOMAIN caches[1].cache_data
    /\ disk.kind = "json"
    /\ AbsXA \notin DOMAIN disk.data

---------------------------------------------------------------------------
(* Claim C28: what a failed save leaves behind *)

\* a call whose save failed (it printed the warning) leaves the index file
\* as it was
FailedSaveKeepsIndex ==
    (last'.op \in Mutators /\ last'.warn) => disk' = disk

\* an instance constructed right after a failed save holds every entry of
\* the last index that was saved whole
LoadsPersistedEntries ==
    \A r \in Insts :
        (/\ last.op \in Mutators /\ last.warn
         /\ last'.op = "construct" /\ last'.inst = r
         /\ saved.kind = "json")
        => /\ caches'[r].alive
           /\ \A k \in DOMAIN saved.data :
                  /\ k \in DOMAIN caches'[r].cache_data
                  /\ caches'[r].cache_data[k] = FromDict(saved.data[k])

\* C28: a failed save loses at most the update being written: after a
\* _save_cache that fails (I/O error, or metadata json cannot encode) the
\* index file still holds the index persisted before, so a DiagramCache
\* constructed afterwards on the same directory loads every entry that had
\* been persisted before the failed write
C28_FailedSaveLosesOneUpdate ==
    [][FailedSaveKeepsIndex /\ LoadsPersistedEntries]_vars

---------------------------------------------------------------------------
(* SpecStep: one instance works, every save succeeds, and a second instance *)
(* is constructed on the directory to compare                               *)

InitStep ==
    /\ fs = [f \in CanonPaths |-> File(BytesA, 1, TRUE)]
    /\ outs = {}
    /\ cwd = DirW
    /\ disk \in {NoIndex, Garbage, OneEntry(GoodDict)}
    /\ caches = [i \in Insts |-> NoInstance]
    /\ last = NoCall
    /\ snap = NoSnaps
    /\ saved = NoSaved
    /\ given = NoGivens
    /\ generator = Generator(TRUE)
    /\ dirs = AllDirs

StepMetadata == {MetaNone, MetaStr, MetaTuple}

NextStep ==
    \/ ~caches[1].alive /\ Construct(1)
    \/ caches[1].alive /\ Construct(2)
    \/ \E p \in CanonPaths, m \in StepMetadata :
           CacheDiagram(1, p, None, OutRel, m, MaxTime, "ok")
    \/ \E p \in CanonPaths : Invalidate(1, p, "ok")
    \/ Clear(1, "ok")
    \/ CleanupStaleEntries(1, "ok")
    \/ \E p \in CanonPaths : IsCachedCall(1, p, None)
    \/ \E p \in CanonPaths : GetCachedOutputsCall(1, p)
    \/ GetCacheStatsCall(1)
    \/ \E f \in CanonPaths : DeleteFile(f)

SpecStep == InitStep /\ [][NextStep]_vars

---------------------------------------------------------------------------
(* Claim C29: memory and disk stay in step *)

\* C29 as stated: after any sequence of calls of one instance in which every
\* save succeeds, a DiagramCache newly constructed on the same directory has
\* a cache_data with the same keys and equal entries
C29_AsStated ==
    [][(last'.op = "construct" /\ last'.inst = 2)
       => /\ caches'[2].alive
          /\ caches'[2].cache_data = caches[1].cache_data]_vars

\* C29, amended: after any sequence of cache_diagram, invalidate, clear,
\* cleanup_stale_entries, is_cached, get_cached_outputs and get_cache_stats
\* of one instance in which every save succeeds, and while the metadata of
\* its entries is made of values that json gives back unchanged, a
\* DiagramCache newly constructed on the same directory has a cache_data
\* with the same keys and equal entries
C29_InStep ==
    [][(/\ last'.op = "construct" /\ last'.inst = 2
        /\ \A k \in DOMAIN caches[1].cache_data : JsonNative(caches[1].cache_data[k]))
       => /\ caches'[2].alive
          /\ caches'[2].cache_data = caches[1].cache_data]_vars

\* the second instance was constructed after the first one had saved, and
\* holds the same two entries, one of them with metadata
C29_Witness ==
    /\ last.op = "construct" /\ last.inst = 2
    /\ saved.kind = "json"
    /\ DOMAIN caches[1].cache_data = CanonPaths
    /\ caches[1].cache_data[AbsXA].metadata = MetaStr
    /\ caches[2].cache_data = caches[1].cache_data

---------------------------------------------------------------------------
(* SpecSite: the generator caches diagrams under diagram keys, and the site *)
(* build constructs its own DiagramCache and cleans it up at the end        *)

InitSite ==
    /\ fs \in {[f \in CanonPaths |-> IF f = AbsWA THEN x ELSE NoFile] :
                  x \in {NoFile, File(BytesA, 0, TRUE)}}
    /\ outs = {}
    /\ cwd = DirW
    /\ disk = NoIndex
    /\ generator = Generator(TRUE)
    /\ caches = [i \in Insts |->
                   IF i = generator.cache THEN Instance(EmptyMap) ELSE NoInstance]
    /\ last = NoCall
    /\ snap = NoSnaps
    /\ saved = NoSaved
    /\ given = NoGivens
    /\ dirs = AllDirs

NextSite ==
    \/ \E k \in GenKeys, c \in GenContents :
           Request(k, c, OutRel, MaxTime, "ok")
    \/ \E k \in GenKeys, c \in GenContents : IsDiagramCached(k, c)
    \/ Construct(2)
    \/ CleanupStaleEntries(2, "ok")
    \/ GetCacheStatsCall(2)
    \/ \E k \in GenKeys, c \in GenContents : IsCachedCall(2, k, c)
    \/ \E dir \in Dirs : Chdir(dir)
    \/ WriteFile(AbsWA, BytesA, 0)
    \/ DeleteFile(AbsWA)

SpecSite == InitSite /\ [][NextSite]_vars

---------------------------------------------------------------------------
(* Claim C30: cleanup of entries cached under diagram keys *)

RemovedIffMissing ==
    \A i \in Insts :
        (last'.op = "cleanup_stale_entries" /\ last'.inst = i)
        => LET d == caches[i].cache_data
           IN  \A k \in DOMAIN d :
                   /\ (k \notin DOMAIN caches'[i].cache_data)
                          <=> ~PathExists(d[k].file_path, cwd)
                   /\ ~PathExists(d[k].file_path, cwd)
                          => \A p \in PathsOf(k), c \in {None} \cup GenContents :
                                 ~IsCached(caches[i].cache_data, p, c)'

\* C30: cleanup_stale_entries removes an entry if and only if its stored
\* file_path does not exist at the call, however the entry was written: an
\* entry cached with a content under a key that never named a file, as the
\* diagram keys of DiagramGenerator.cache_diagram_outputs, is removed by the
\* first cleanup_stale_entries, and is_cached(key, content) is false
\* afterwards for the content that was cached
C30_DiagramKeysAreStale == [][RemovedIffMissing]_vars

\* the generator cached a content under /x/a, which never existed; the site
\* build loaded that entry and its cleanup removed it
C30_Witness ==
    /\ last.op = "cleanup_stale_entries"
    /\ last.inst = 2
    /\ last.before = 1
    /\ last.ret = 1
    /\ DOMAIN caches[1].cache_data = {AbsXA}
    /\ given[1][AbsXA] = StrA
    /\ IsCached(caches[1].cache_data, AbsXA, StrA)
    /\ ~IsCached(caches[2].cache_data, AbsXA, StrA)

=============================================================================
